---- MODULE Spec2Model ----
(***************************************************************************)
(* The legacy ("og") pool worker of the farmer: chia/farmer/og_pooling.    *)
(*                                                                         *)
(*   Spec       the worker object between start() and close(): the         *)
(*              new_proof_of_space pipeline with its two suspension        *)
(*              points, the difficulty-adjustment task, close(), the       *)
(*              farmer's shutdown flag and the wall clock.                 *)
(*   SpecHooks  the hooks new_signage_point / farming_info interleaved     *)
(*              with the new_proof_of_space pipeline.                      *)
(*   SpecLife   all of these operations side by side.                      *)
(*   SpecSubmit the new_proof_of_space pipeline alone.                     *)
(*   SpecRace   two new_proof_of_space calls beside the adjustment task.   *)
(*   SpecClose  close() beside the adjustment task, with fairness.         *)
(*   SpecTick   one tick of the adjustment task from every input.          *)
(*   SpecPost   post_partial, the retry helper of the pool API client.     *)
(*   SpecStart  PoolWorker.__init__ (configuration migration) and start(). *)
(*   SpecConnect the loop of _connect_to_pool past its first line.         *)
(*   SpecRoot   the root path resolver, chia/util/default_root.py.         *)
(*                                                                         *)
(* Numbers are seconds and difficulties as in the source.  Values beyond   *)
(* 2^31 are written in base 10^9, most significant limb first.             *)
(*                                                                         *)
(* Time is kept relative to the present: time.time() is always 0, and a    *)
(* stored timestamp moves d into the past when d seconds go by.  Every     *)
(* expression of the source over timestamps (now - last_tick, time.time()  *)
(* < ttl) is then written as in the source.                                *)
(***************************************************************************)
EXTENDS Integers, Sequences, FiniteSets, TLC

VARIABLES
    \* ---- PoolWorker fields (pool_worker.py 56-68)
    pool_client,               \* "None" or "client": _is_pool_connected
    pool_target,               \* puzzle hash learned from the pool, or "None"
    pool_difficulty,
    pool_minimum_difficulty,
    pool_partial_target_time,
    last_partial_submit_time,
    total_plots,
    harvester_plots,           \* peer_node_id -> total_plots, a partial map
    adjust_difficulty_task,    \* "None", "created", "sleeping", "done"
    \* ---- the adjustment task's frame (pool_worker.py 123-146)
    last_tick,
    sleep_done,                \* the pending asyncio.sleep(1) has elapsed
    \* ---- the farmer (pool_worker.py 35, 80-82, 112-116)
    shut_down,                 \* farmer._shut_down
    farmer_pool_target,        \* farmer.pool_target
    farmer_config,             \* farmer.config["og_pooling"]: <<>> or <<section>>
    \* ---- environment
    config_file,               \* config.yaml, farmer.og_pooling: <<>> or <<section>>
    save_count,                \* save_config calls so far
    constructions,             \* PoolWorker objects constructed so far
    \* ---- one frame per new_proof_of_space call (pool_worker.py 184-281)
    pc,                        \* "idle", "await_sign", "await_submit", "returned", "raised"
    payload,                   \* the PartialPayloadOG the call built
    pool_public_key,           \* the call's pool_public_key argument
    required_iters,            \* the call's local of line 194
    iters_difficulty,          \* the pool_difficulty line 198 passed to compute it
    error,                     \* the exception that left the call, or "none"
    \* ---- what the step just taken returned and logged
    ret,                       \* value returned by the hook that just ran, or <<>>
    log,                       \* the lines logged above debug level, in order
    \* ---- close() (pool_worker.py 155-158)
    close_pc,                  \* "idle", "await_task", "returned"
    \* ---- __init__ / start() (pool_worker.py 27-68, 148-153)
    worker,                    \* <<>> before construction, else <<[pool_enabled, pool_url, pool_payout_address]>>
    start_pc,                  \* start(): "idle", "loop" (at line 90), "fetching", "returned", "raised"
    \* ---- post_partial's frame (pool_api_client.py 21-36)
    post_pc,                   \* "idle", "loop", "attempt", "returned", "raised"
    url,
    ttl,
    last_error,                \* <<>> (None) or <<kind, attempt, status>>
    attempts,                  \* POSTs issued by this call
    post_result,               \* what the call returned or raised
    post_started,              \* history: when the call began
    \* ---- chia/util/default_root.py, run once when the module is imported
    root_pc,                   \* "start", "done", "raised"
    environ,                   \* os.environ: [CHIA_ROOT, CHIA_KEYS_ROOT], each <<>> or <<string>>
    override_file,             \* config_root.json: <<>> or <<document>>
    root_path,                 \* DEFAULT_ROOT_PATH, <<>> while unbound
    keys_root_path,            \* DEFAULT_KEYS_ROOT_PATH, <<>> while unbound
    root_error                 \* the exception that ended the import, or "none"

workerVars == <<pool_client, pool_target, pool_difficulty, pool_minimum_difficulty,
                pool_partial_target_time, last_partial_submit_time, total_plots,
                harvester_plots, adjust_difficulty_task>>
taskVars   == <<last_tick, sleep_done>>
farmerVars == <<shut_down, farmer_pool_target, farmer_config>>
envVars    == <<config_file, save_count, constructions>>
callVars   == <<pc, payload, pool_public_key, required_iters, iters_difficulty, error>>
startVars  == <<worker, start_pc>>
postVars   == <<post_pc, url, ttl, last_error, attempts, post_result, post_started>>
rootVars   == <<root_pc, environ, override_file, root_path, keys_root_path, root_error>>
vars == <<workerVars, taskVars, farmerVars, envVars, callVars, ret, log, close_pc,
          startVars, postVars, rootVars>>

----------------------------------------------------------------------------
(* Bounds of the model *)

MaxElapsed == 120       \* time stops this long after the last submission
MaxDifficulty == 3      \* difficulties the pool sends are 0..MaxDifficulty
MaxMinDifficulty == 2   \* pool info's minimum_difficulty is 1..MaxMinDifficulty
MaxConstructs == 2      \* PoolWorker constructions against one configuration
iters_limit == 3        \* calculate_sp_interval_iters(constants, POOL_SUB_SLOT_ITERS)
MaxTickDifficulty == 10 \* SpecTick: pool_difficulty before a tick is 0..MaxTickDifficulty
MaxTickElapsed == 185   \* SpecTick: seconds since the last submission, 0..MaxTickElapsed

TimeSteps == {30, 60}                 \* how long the event loop can stay idle
Frames == {"call1", "call2"}          \* new_proof_of_space frames
Calls == {"call1"}                    \* the frame in use where one call runs at a time
Peers == {"h1", "h2"}                 \* harvester peer_node_ids
PlotCounts == {100, 150}              \* FarmingInfo.total_plots
InfoTargetTimes == {0, 60}            \* pool info's partial_target_time
TargetTimes == {-1, 0, 60}            \* a response's partial_target_time
None == "None"

\* time.time(), see the note on time above
now == 0

Max(a, b) == IF a >= b THEN a ELSE b

----------------------------------------------------------------------------
(* Constants and domains *)

\* pool_worker.py 23: uint64(37600000000) = 37 * 10^9 + 600000000
POOL_SUB_SLOT_ITERS == <<37, 600000000>>
DEFAULT_POOL_URL == "https://pool.sweetchia.com"
PostBudget == 23
TickPeriod == 60
DefaultTargetTime == 300

\* farmer_protocol.NewSignagePoint: the two fields the hook reads
SignagePoints == [difficulty : {1, 9},
                  sub_slot_iters : {<<0, 134217728>>, POOL_SUB_SLOT_ITERS}]

\* the decoded body of GET /og/pool_info
PoolInfos == [minimum_difficulty : 1..MaxMinDifficulty,
              partial_target_time : InfoTargetTimes,
              target_puzzle_hash : {"ph_pool"}]

\* the decoded body of POST /og/partial: every key is optional.  A key that
\* is absent carries 0 so that each document is written one way.
ResponseKeys == {"new_difficulty", "partial_target_time", "error_code", "error_message"}
Responses ==
    {r \in [keys : SUBSET ResponseKeys,
            new_difficulty : 0..MaxDifficulty,
            partial_target_time : TargetTimes,
            error_code : {0, 5, 7}] :
        /\ ("new_difficulty" \notin r.keys => r.new_difficulty = 0)
        /\ ("partial_target_time" \notin r.keys => r.partial_target_time = 0)
        /\ ("error_code" \in r.keys <=> r.error_code # 0)}

\* what peer.request_signatures can answer (pool_worker.py 228-247)
SignResponses == [is_respond_signatures : BOOLEAN,
                  num_signatures : 0..2,
                  farmer_pk_known : BOOLEAN,   \* some sk.get_g1() equals farmer_pk
                  agg_pk_ok : BOOLEAN,         \* agg_pk = proof.plot_public_key
                  verifies : BOOLEAN]          \* AugSchemeMPL.verify(...)

PoolKeys == {"in_pool_sks_map", "not_in_pool_sks_map"}

\* what calculate_iterations_quality can return, about the limit
RequiredIters == (iters_limit - 1)..(iters_limit + 1)

EmptyMap == [p \in {} |-> 0]
NoPayload == [difficulty |-> 0, total_plots |-> 0, payout_address |-> <<>>]

RECURSIVE SumPlots(_)
\* sum(self.harvester_plots.values())
SumPlots(m) ==
    IF DOMAIN m = {} THEN 0
    ELSE LET p == CHOOSE q \in DOMAIN m : TRUE
         IN m[p] + SumPlots([q \in DOMAIN m \ {p} |-> m[q]])

\* PoolWorker._is_pool_connected
is_pool_connected == pool_client # None

----------------------------------------------------------------------------
(* The hooks *)

\* a variant of SignagePointResult that overrides the difficulty alone
SignagePointResult_KeepsIters(sp) ==
    IF is_pool_connected
    THEN <<pool_difficulty, sp.sub_slot_iters>>
    ELSE <<sp.difficulty, sp.sub_slot_iters>>

\* new_signage_point's return value
SignagePointResult(sp) ==
    IF is_pool_connected
    THEN <<pool_difficulty, POOL_SUB_SLOT_ITERS>>
    ELSE <<sp.difficulty, sp.sub_slot_iters>>

\* a variant of RecordPlots that adds a report to the peer's earlier one
RecordPlots_Accumulates(m, peer, n) ==
    [q \in DOMAIN m \cup {peer} |->
        IF q = peer THEN (IF peer \in DOMAIN m THEN m[peer] + n ELSE n) ELSE m[q]]

\* self.harvester_plots[peer.peer_node_id] = request.total_plots
RecordPlots(m, peer, n) ==
    [q \in DOMAIN m \cup {peer} |-> IF q = peer THEN n ELSE m[q]]

NewSignagePoint(sp) ==
    /\ worker # <<>>
    /\ ret' = SignagePointResult(sp)
    /\ log' = <<>>
    /\ IF is_pool_connected
       THEN /\ total_plots' = SumPlots(harvester_plots)
            /\ harvester_plots' = EmptyMap
       ELSE UNCHANGED <<total_plots, harvester_plots>>
    /\ UNCHANGED <<pool_client, pool_target, pool_difficulty, pool_minimum_difficulty,
                   pool_partial_target_time, last_partial_submit_time,
                   adjust_difficulty_task>>
    /\ UNCHANGED <<taskVars, farmerVars, envVars, callVars, close_pc, startVars, postVars, rootVars>>

FarmingInfo(peer, n) ==
    /\ worker # <<>>
    /\ ret' = <<>>
    /\ log' = <<>>
    /\ IF is_pool_connected
       THEN harvester_plots' = RecordPlots(harvester_plots, peer, n)
       ELSE UNCHANGED harvester_plots
    /\ UNCHANGED <<pool_client, pool_target, pool_difficulty, pool_minimum_difficulty,
                   pool_partial_target_time, last_partial_submit_time, total_plots,
                   adjust_difficulty_task>>
    /\ UNCHANGED <<taskVars, farmerVars, envVars, callVars, close_pc, startVars, postVars, rootVars>>

----------------------------------------------------------------------------
(* new_proof_of_space: lines 191-228, up to the harvester round trip *)

\* a variant of Eligible that rejects with > in place of >=
Eligible_AtLimit(iters) == iters <= iters_limit

\* the negation of line 201, required_iters >= self.iters_limit
Eligible(iters) == iters < iters_limit

\* the log lines of new_proof_of_space and of the adjustment task
LogNotGoodEnough  == <<"info", "proof_not_good_enough">>            \* 202
LogInvalidAnswer  == <<"error", "invalid_harvester_response">>      \* 230
LogSubmitFailed   == <<"error", "error_submitting_partial">>        \* 258
LogDifficulty     == <<"info", "pool_difficulty_changed">>          \* 266
LogTargetTime     == <<"info", "partial_target_time_changed">>      \* 272
LogTooLow         == <<"info", "partial_difficulty_too_low">>       \* 276
LogPoolingError   == <<"error", "error_in_pooling">>                \* 278
LogLowered(old, new) == <<"warning", "lowered_difficulty", old, new>> \* 143

\* farmer.farmer_target_encoded; strings are sequences of characters
farmer_target_encoded == <<"f">>

\* lines 208-218: the payload's difficulty, total_plots and payout_address
BuildPayload ==
    [difficulty |-> pool_difficulty,
     total_plots |-> total_plots,
     payout_address |-> IF worker[1].pool_payout_address # <<>>
                        THEN worker[1].pool_payout_address ELSE farmer_target_encoded]

NewProofOfSpace(c, iters, key) ==
    /\ worker # <<>>
    /\ pc[c] \in {"idle", "returned", "raised"}
    /\ error' = [error EXCEPT ![c] = "none"]
    /\ IF ~is_pool_connected                                            \* 191-192
       THEN /\ pc' = [pc EXCEPT ![c] = "returned"]
            /\ required_iters' = [required_iters EXCEPT ![c] = 0]
            /\ iters_difficulty' = [iters_difficulty EXCEPT ![c] = 0]
            /\ payload' = [payload EXCEPT ![c] = NoPayload]
            /\ pool_public_key' = [pool_public_key EXCEPT ![c] = "in_pool_sks_map"]
            /\ log' = <<>>
       ELSE IF ~Eligible(iters)                                          \* 201-205
       THEN /\ pc' = [pc EXCEPT ![c] = "returned"]
            /\ required_iters' = [required_iters EXCEPT ![c] = iters]
            /\ iters_difficulty' = [iters_difficulty EXCEPT ![c] = pool_difficulty]
            /\ payload' = [payload EXCEPT ![c] = NoPayload]
            /\ pool_public_key' = [pool_public_key EXCEPT ![c] = "in_pool_sks_map"]
            /\ log' = <<LogNotGoodEnough>>
       ELSE /\ pc' = [pc EXCEPT ![c] = "await_sign"]                     \* 208-228
            /\ required_iters' = [required_iters EXCEPT ![c] = iters]
            /\ iters_difficulty' = [iters_difficulty EXCEPT ![c] = pool_difficulty]
            /\ payload' = [payload EXCEPT ![c] = BuildPayload]
            /\ pool_public_key' = [pool_public_key EXCEPT ![c] = key]
            /\ log' = <<>>
    /\ ret' = <<>>
    /\ UNCHANGED <<workerVars, taskVars, farmerVars, envVars, close_pc, startVars,
                   postVars, rootVars>>

----------------------------------------------------------------------------
(* new_proof_of_space: lines 228-259, signatures and submission *)

\* How lines 229-248 end for a harvester answer: "invalid" is the logged
\* return of line 231, "ok" reaches line 250, anything else is the
\* exception that leaves the coroutine.
SignOutcome(resp, key) ==
    IF ~resp.is_respond_signatures THEN "invalid"                        \* 229-231
    ELSE IF resp.num_signatures # 1 THEN "AssertionError"                \* 233
    ELSE IF resp.farmer_pk_known /\ ~resp.agg_pk_ok THEN "AssertionError" \* 240
    ELSE IF resp.farmer_pk_known /\ ~resp.verifies THEN "AssertionError"  \* 243
    ELSE IF key # "in_pool_sks_map" THEN "KeyError"                      \* 244
    ELSE IF ~resp.farmer_pk_known THEN "AssertionError"                  \* 247
    ELSE "ok"

\* a variant of SubmittedPayload that reads pool_difficulty again at the submit
SubmittedPayload_Reread(c) == [payload[c] EXCEPT !.difficulty = pool_difficulty]

\* line 250: SubmitPartialOG takes the payload built at lines 210-218
SubmittedPayload(c) == payload[c]

\* a variant of SubmitTimeAtIssue that leaves the time for the pool's answer
SubmitTimeAtIssue_NotYet == last_partial_submit_time

\* line 252, before the submit of line 256
SubmitTimeAtIssue == now

SignResponse(c, resp) ==
    /\ pc[c] = "await_sign"
    /\ LET outcome == SignOutcome(resp, pool_public_key[c]) IN
       IF outcome = "invalid"
       THEN /\ pc' = [pc EXCEPT ![c] = "returned"]
            /\ log' = <<LogInvalidAnswer>>
            /\ UNCHANGED <<error, last_partial_submit_time, payload>>
       ELSE IF outcome # "ok"
       THEN /\ pc' = [pc EXCEPT ![c] = "raised"]
            /\ error' = [error EXCEPT ![c] = outcome]
            /\ log' = <<>>
            /\ UNCHANGED <<last_partial_submit_time, payload>>
       ELSE /\ last_partial_submit_time' = SubmitTimeAtIssue
            /\ payload' = [payload EXCEPT ![c] = SubmittedPayload(c)]       \* 250
            \* 256: with pool_client cleared by close(), the attribute
            \* lookup raises inside the try and line 257 catches it
            /\ pc' = [pc EXCEPT ![c] = IF is_pool_connected
                                       THEN "await_submit" ELSE "returned"]
            /\ log' = IF is_pool_connected THEN <<>> ELSE <<LogSubmitFailed>>
            /\ UNCHANGED error
    /\ ret' = <<>>
    /\ UNCHANGED <<pool_public_key, required_iters, iters_difficulty>>
    /\ UNCHANGED <<pool_client, pool_target, pool_difficulty, pool_minimum_difficulty,
                   pool_partial_target_time, total_plots, harvester_plots,
                   adjust_difficulty_task>>
    /\ UNCHANGED <<taskVars, farmerVars, envVars, close_pc, startVars, postVars, rootVars>>

\* a variant of ClientAfterSubmitError that drops the client on a failed submit
ClientAfterSubmitError_Dropped == None

\* lines 257-259 do not touch self.pool_client
ClientAfterSubmitError == pool_client

\* lines 257-259: submit_partial raised; logged, nothing else
SubmitRaise(c) ==
    /\ pc[c] = "await_submit"
    /\ pc' = [pc EXCEPT ![c] = "returned"]
    /\ ret' = <<>>
    /\ log' = <<LogSubmitFailed>>
    /\ pool_client' = ClientAfterSubmitError
    /\ UNCHANGED <<payload, pool_public_key, required_iters, iters_difficulty, error>>
    /\ UNCHANGED <<pool_target, pool_difficulty, pool_minimum_difficulty,
                   pool_partial_target_time, last_partial_submit_time, total_plots,
                   harvester_plots, adjust_difficulty_task>>
    /\ UNCHANGED <<taskVars, farmerVars, envVars, close_pc, startVars, postVars,
                   rootVars>>

----------------------------------------------------------------------------
(* new_proof_of_space: lines 261-281, the pool's answer *)

\* lines 262-266
AdoptDifficulty(r) ==
    IF "new_difficulty" \in r.keys /\ r.new_difficulty # pool_difficulty
    THEN r.new_difficulty ELSE pool_difficulty

\* a variant of AdoptTargetTime without the sign test of line 270
AdoptTargetTime_AnySign(r) ==
    IF /\ "partial_target_time" \in r.keys
       /\ r.partial_target_time # pool_partial_target_time
    THEN r.partial_target_time ELSE pool_partial_target_time

\* lines 268-272
AdoptTargetTime(r) ==
    IF /\ "partial_target_time" \in r.keys
       /\ r.partial_target_time >= 0
       /\ r.partial_target_time # pool_partial_target_time
    THEN r.partial_target_time ELSE pool_partial_target_time

\* lines 274-281: "none" when the branch completes, else the exception.
\* Line 280 subscripts submit_response['error_message'] while it builds
\* the log line.
ErrorCodeOutcome(r) ==
    IF "error_code" \notin r.keys THEN "none"
    ELSE IF r.error_code = 5 THEN "none"
    ELSE IF "error_message" \in r.keys THEN "none"
    ELSE "KeyError"

\* the lines 266, 272, 276 and 278 log for a response, in order
ResponseLog(r) ==
    (IF AdoptDifficulty(r) # pool_difficulty THEN <<LogDifficulty>> ELSE <<>>)
    \o (IF AdoptTargetTime(r) # pool_partial_target_time THEN <<LogTargetTime>> ELSE <<>>)
    \o (IF "error_code" \notin r.keys THEN <<>>
        ELSE IF r.error_code = 5 THEN <<LogTooLow>>
        ELSE IF ErrorCodeOutcome(r) = "none" THEN <<LogPoolingError>>
        ELSE <<>>)

SubmitReturn(c, r) ==
    /\ pc[c] = "await_submit"
    /\ pool_difficulty' = AdoptDifficulty(r)
    /\ pool_partial_target_time' = AdoptTargetTime(r)
    /\ LET outcome == ErrorCodeOutcome(r) IN
         /\ pc' = [pc EXCEPT ![c] = IF outcome = "none" THEN "returned" ELSE "raised"]
         /\ error' = [error EXCEPT ![c] = outcome]
    /\ log' = ResponseLog(r)
    /\ ret' = <<>>
    /\ UNCHANGED <<payload, pool_public_key, required_iters, iters_difficulty>>
    /\ UNCHANGED <<pool_client, pool_target, pool_minimum_difficulty,
                   last_partial_submit_time, total_plots, harvester_plots,
                   adjust_difficulty_task>>
    /\ UNCHANGED <<taskVars, farmerVars, envVars, close_pc, startVars, postVars, rootVars>>

----------------------------------------------------------------------------
(* The difficulty-adjustment task, close(), the farmer and the clock *)

\* a variant of AdjustedDifficulty without the floor of line 137
AdjustedDifficulty_NoFloor(difficulty, minimum, target_time, elapsed) ==
    IF elapsed < target_time \/ target_time < 1
    THEN difficulty
    ELSE difficulty - ((elapsed \div target_time) * 2)

\* a variant of AdjustedDifficulty whose floor is 1, not the pool's minimum
AdjustedDifficulty_FloorOne(difficulty, minimum, target_time, elapsed) ==
    IF elapsed < target_time \/ target_time < 1
    THEN difficulty
    ELSE Max(difficulty - ((elapsed \div target_time) * 2), 1)

\* a variant of AdjustedDifficulty that takes one step per missing partial
AdjustedDifficulty_OnePerMissing(difficulty, minimum, target_time, elapsed) ==
    IF elapsed < target_time \/ target_time < 1
    THEN difficulty
    ELSE Max(difficulty - (elapsed \div target_time), minimum)

\* lines 131-142: the difficulty an adjustment tick leaves
AdjustedDifficulty(difficulty, minimum, target_time, elapsed) ==
    IF elapsed < target_time \/ target_time < 1
    THEN difficulty
    ELSE Max(difficulty - ((elapsed \div target_time) * 2), minimum)

\* line 124, the first loop test and the first sleep
TaskStart ==
    /\ adjust_difficulty_task = "created"
    /\ last_tick' = now
    /\ adjust_difficulty_task' = IF shut_down THEN "done" ELSE "sleeping"
    /\ sleep_done' = FALSE
    /\ ret' = <<>>
    /\ log' = <<>>
    /\ UNCHANGED <<pool_client, pool_target, pool_difficulty, pool_minimum_difficulty,
                   pool_partial_target_time, last_partial_submit_time, total_plots,
                   harvester_plots>>
    /\ UNCHANGED <<farmerVars, envVars, callVars, close_pc, startVars, postVars, rootVars>>

\* one turn of the loop: wake from sleep(1), lines 127-146, the loop test
\* of line 125, and the next sleep
AdjustIteration ==
    /\ adjust_difficulty_task = "sleeping"
    /\ sleep_done
    /\ IF now - last_tick < TickPeriod                                   \* 128-129
       THEN /\ log' = <<>>
            /\ UNCHANGED <<last_tick, pool_difficulty>>
       ELSE /\ last_tick' = now
            /\ pool_difficulty' =
                   AdjustedDifficulty(pool_difficulty, pool_minimum_difficulty,
                                      pool_partial_target_time,
                                      now - last_partial_submit_time)
            /\ log' = IF pool_difficulty' # pool_difficulty
                      THEN <<LogLowered(pool_difficulty, pool_difficulty')>>
                      ELSE <<>>
    /\ adjust_difficulty_task' = IF shut_down THEN "done" ELSE "sleeping"
    /\ sleep_done' = FALSE
    /\ ret' = <<>>
    /\ UNCHANGED <<pool_client, pool_target, pool_minimum_difficulty,
                   pool_partial_target_time, last_partial_submit_time, total_plots,
                   harvester_plots>>
    /\ UNCHANGED <<farmerVars, envVars, callVars, close_pc, startVars, postVars, rootVars>>

\* a variant of TaskPending with which close() waits for nothing
TaskPending_Never(task) == FALSE

\* lines 156-157: close() suspends on a task that exists and has not finished
TaskPending(task) == task \notin {None, "done"}

\* close(), lines 156-158, up to the await or, with no task to wait for, to the end
Close ==
    /\ worker # <<>>
    /\ close_pc = "idle"
    /\ IF ~TaskPending(adjust_difficulty_task)
       THEN /\ pool_client' = None
            /\ close_pc' = "returned"
       ELSE /\ close_pc' = "await_task"
            /\ UNCHANGED pool_client
    /\ ret' = <<>>
    /\ log' = <<>>
    /\ UNCHANGED <<pool_target, pool_difficulty, pool_minimum_difficulty,
                   pool_partial_target_time, last_partial_submit_time, total_plots,
                   harvester_plots, adjust_difficulty_task>>
    /\ UNCHANGED <<taskVars, farmerVars, envVars, callVars, startVars, postVars, rootVars>>

\* close() resumes once the awaited task has finished: line 158
CloseResume ==
    /\ close_pc = "await_task"
    /\ adjust_difficulty_task = "done"
    /\ pool_client' = None
    /\ close_pc' = "returned"
    /\ ret' = <<>>
    /\ log' = <<>>
    /\ UNCHANGED <<pool_target, pool_difficulty, pool_minimum_difficulty,
                   pool_partial_target_time, last_partial_submit_time, total_plots,
                   harvester_plots, adjust_difficulty_task>>
    /\ UNCHANGED <<taskVars, farmerVars, envVars, callVars, startVars, postVars, rootVars>>

\* the farmer sets _shut_down
Shutdown ==
    /\ ~shut_down
    /\ shut_down' = TRUE
    /\ ret' = <<>>
    /\ log' = <<>>
    /\ UNCHANGED <<farmer_pool_target, farmer_config>>
    /\ UNCHANGED <<workerVars, taskVars, envVars, callVars, close_pc, startVars,
                   postVars, rootVars>>

\* d seconds pass with every coroutine suspended; a pending sleep(1) elapses.
\* last_tick is only read in `now - last_tick < 60`, so it is kept no
\* further back than that.
TimePasses(d) ==
    /\ (now - last_partial_submit_time) + d <= MaxElapsed
    /\ last_partial_submit_time' = last_partial_submit_time - d
    /\ last_tick' = Max(last_tick - d, now - TickPeriod)
    /\ sleep_done' = (adjust_difficulty_task = "sleeping")
    /\ ret' = <<>>
    /\ log' = <<>>
    /\ UNCHANGED <<pool_client, pool_target, pool_difficulty, pool_minimum_difficulty,
                   pool_partial_target_time, total_plots, harvester_plots,
                   adjust_difficulty_task>>
    /\ UNCHANGED <<farmerVars, envVars, callVars, close_pc, startVars, postVars, rootVars>>

----------------------------------------------------------------------------
(* The root path resolver, chia/util/default_root.py.  Strings are         *)
(* sequences of characters; directory names are one character long.        *)

Home == <<"/", "h">>                    \* the user's home directory
Cwd == <<"/", "w">>                     \* the working directory
FallbackRoot == <<"~", "/", "m">>       \* line 8, "~/.chia/mainnet"
FallbackKeysRoot == <<"~", "/", "k">>   \* line 10, "~/.chia_keys"

\* os.path.expanduser / Path.expanduser: a leading ~ component becomes the home
ExpandUser(path) ==
    IF path # <<>> /\ Head(path) = "~" /\ (Len(path) = 1 \/ path[2] = "/")
    THEN Home \o Tail(path)
    ELSE path

\* Path.resolve(): a relative path is taken from the working directory
Resolve(path) ==
    IF path # <<>> /\ Head(path) = "/" THEN path
    ELSE IF path = <<>> THEN Cwd
    ELSE Cwd \o <<"/">> \o path

\* os.getenv(name, default)
GetEnv(value, default) == IF value # <<>> THEN value[1] ELSE default

\* lines 8 and 10
DefaultRoot(env) == Resolve(ExpandUser(GetEnv(env.CHIA_ROOT, FallbackRoot)))
DefaultKeysRoot(env) == Resolve(ExpandUser(GetEnv(env.CHIA_KEYS_ROOT, FallbackKeysRoot)))

Environs == [CHIA_ROOT : {<<>>, <<<<"/", "e">>>>},
             CHIA_KEYS_ROOT : {<<>>, <<<<"~", "/", "f">>>>}]

\* the values a key of config_root.json holds: empty, one character, longer
OverrideValues == {<<>>, <<"x">>, <<"~", "/", "c">>, <<"/", "d">>, <<"r", "l">>}
OverrideKeys == {"DEFAULT_ROOT_PATH", "DEFAULT_KEYS_ROOT_PATH"}

\* config_root.json as a JSON object; an absent key carries <<>>
OverrideDocuments ==
    {doc \in [keys : SUBSET OverrideKeys, DEFAULT_ROOT_PATH : OverrideValues,
              DEFAULT_KEYS_ROOT_PATH : OverrideValues] :
        /\ "DEFAULT_ROOT_PATH" \notin doc.keys => doc.DEFAULT_ROOT_PATH = <<>>
        /\ "DEFAULT_KEYS_ROOT_PATH" \notin doc.keys => doc.DEFAULT_KEYS_ROOT_PATH = <<>>}

\* lines 18 and 21: `value and len(value) > 1`
Overrides(value) == value # <<>> /\ Len(value) > 1

\* the module body, lines 8-22: _json[key] of lines 17 and 20 raises KeyError
\* for a key the document lacks
ImportDefaultRoot ==
    /\ root_pc = "start"
    /\ LET root == DefaultRoot(environ)
           keys_root == DefaultKeysRoot(environ)
       IN  IF override_file = <<>>
           THEN /\ root_path' = root
                /\ keys_root_path' = keys_root
                /\ root_pc' = "done"
                /\ root_error' = "none"
           ELSE LET doc == override_file[1]
                IN  IF "DEFAULT_ROOT_PATH" \notin doc.keys
                    THEN /\ root_path' = root
                         /\ keys_root_path' = keys_root
                         /\ root_pc' = "raised"
                         /\ root_error' = "KeyError"
                    ELSE /\ root_path' = IF Overrides(doc.DEFAULT_ROOT_PATH)
                                         THEN Resolve(ExpandUser(doc.DEFAULT_ROOT_PATH))
                                         ELSE root
                         /\ IF "DEFAULT_KEYS_ROOT_PATH" \notin doc.keys
                            THEN /\ keys_root_path' = keys_root
                                 /\ root_pc' = "raised"
                                 /\ root_error' = "KeyError"
                            ELSE /\ keys_root_path' =
                                        IF Overrides(doc.DEFAULT_KEYS_ROOT_PATH)
                                        THEN Resolve(ExpandUser(doc.DEFAULT_KEYS_ROOT_PATH))
                                        ELSE keys_root
                                 /\ root_pc' = "done"
                                 /\ root_error' = "none"
    /\ UNCHANGED <<environ, override_file>>
    /\ UNCHANGED <<workerVars, taskVars, farmerVars, envVars, callVars, ret, log,
                   close_pc, startVars>>
    /\ UNCHANGED <<post_pc, url, ttl, last_error, attempts, post_result, post_started>>

\* the resolver ran at startup with no environment variable and no override
RootResolved ==
    /\ root_pc = "done"
    /\ environ = [CHIA_ROOT |-> <<>>, CHIA_KEYS_ROOT |-> <<>>]
    /\ override_file = <<>>
    /\ root_path = DefaultRoot(environ)
    /\ keys_root_path = DefaultKeysRoot(environ)
    /\ root_error = "none"

----------------------------------------------------------------------------
(* Spec: the worker from start() to close() *)

\* the og_pooling section __init__ writes, lines 41-44.  A section is its
\* set of keys and their values; a key that is absent carries a fixed value
\* so that each section is written one way.
ConfigTemplate == [keys |-> {"enabled", "pool_url"},
                   enabled |-> TRUE,
                   pool_url |-> DEFAULT_POOL_URL,
                   pool_payout_address |-> <<>>]

\* lines 56-68: the fields of a fresh worker
FreshFields ==
    /\ pool_target = None
    /\ pool_difficulty = 1
    /\ pool_minimum_difficulty = 1
    /\ pool_partial_target_time = DefaultTargetTime
    /\ last_partial_submit_time = now
    /\ pool_client = None
    /\ adjust_difficulty_task = None
    /\ total_plots = 0
    /\ harvester_plots = EmptyMap

\* lines 101-117 and 151: the fields after _connect_to_pool adopted a pool
\* info, with the adjustment task created
ConnectedFields(info) ==
    /\ pool_minimum_difficulty = info.minimum_difficulty
    /\ pool_difficulty = info.minimum_difficulty
    /\ pool_partial_target_time = info.partial_target_time
    /\ pool_target = info.target_puzzle_hash
    /\ farmer_pool_target = info.target_puzzle_hash
    /\ pool_client = "client"
    /\ adjust_difficulty_task = "created"
    /\ last_partial_submit_time = now
    /\ total_plots = 0
    /\ harvester_plots = EmptyMap

NoCalls ==
    /\ pc = [c \in Frames |-> "idle"]
    /\ payload = [c \in Frames |-> NoPayload]
    /\ pool_public_key = [c \in Frames |-> "in_pool_sks_map"]
    /\ required_iters = [c \in Frames |-> 0]
    /\ iters_difficulty = [c \in Frames |-> 0]
    /\ error = [c \in Frames |-> "none"]

NoPost ==
    /\ post_pc = "idle"
    /\ ttl = 0
    /\ last_error = <<>>
    /\ url = "url1"
    /\ attempts = 0
    /\ post_result = <<>>
    /\ post_started = 0

\* nothing is running: no call frame, no task frame, nothing returned or logged
Quiet ==
    /\ RootResolved
    /\ shut_down = FALSE
    /\ last_tick = 0
    /\ sleep_done = FALSE
    /\ NoCalls
    /\ NoPost
    /\ ret = <<>>
    /\ log = <<>>
    /\ close_pc = "idle"

\* a worker built from the migrated configuration that either was never
\* connected or holds a pool client and the parameters of a pool info
Init ==
    /\ Quiet
    /\ worker = <<[pool_enabled |-> TRUE, pool_url |-> DEFAULT_POOL_URL,
                   pool_payout_address |-> <<>>]>>
    /\ farmer_config = <<ConfigTemplate>>
    /\ config_file = <<ConfigTemplate>>
    /\ save_count = 0
    /\ constructions = 1
    /\ start_pc = "returned"
    /\ \/ FreshFields /\ farmer_pool_target = "ph_farmer"
       \/ \E info \in PoolInfos : ConnectedFields(info)

Next ==
    \/ \E c \in Calls, iters \in RequiredIters, key \in PoolKeys :
          NewProofOfSpace(c, iters, key)
    \/ \E c \in Calls, resp \in SignResponses : SignResponse(c, resp)
    \/ \E c \in Calls, r \in Responses : SubmitReturn(c, r)
    \/ \E c \in Calls : SubmitRaise(c)
    \/ TaskStart
    \/ AdjustIteration
    \/ Close
    \/ CloseResume
    \/ Shutdown
    \/ \E d \in TimeSteps : TimePasses(d)

Spec == Init /\ [][Next]_vars

----------------------------------------------------------------------------
(* SpecHooks: the per-signage-point and per-report hooks beside the        *)
(* submission pipeline, which reads total_plots and pool_difficulty        *)

NextHooks ==
    \/ \E sp \in SignagePoints : NewSignagePoint(sp)
    \/ \E peer \in Peers, n \in PlotCounts : FarmingInfo(peer, n)
    \/ \E c \in Calls, iters \in RequiredIters, key \in PoolKeys :
          NewProofOfSpace(c, iters, key)
    \/ \E c \in Calls, resp \in SignResponses : SignResponse(c, resp)
    \/ \E c \in Calls, r \in Responses : SubmitReturn(c, r)
    \/ \E c \in Calls : SubmitRaise(c)

SpecHooks == Init /\ [][NextHooks]_vars

----------------------------------------------------------------------------
(* SpecLife: every operation of a constructed worker side by side: the     *)
(* hooks, the pipeline, the adjustment task, close() and shutdown          *)

NextLife ==
    \/ \E sp \in {x \in SignagePoints : x.difficulty = 9} : NewSignagePoint(sp)
    \/ \E peer \in {"h1"}, n \in {100} : FarmingInfo(peer, n)
    \/ \E c \in Calls, iters \in RequiredIters, key \in PoolKeys :
          NewProofOfSpace(c, iters, key)
    \/ \E c \in Calls, resp \in SignResponses : SignResponse(c, resp)
    \/ \E c \in Calls, r \in Responses : SubmitReturn(c, r)
    \/ \E c \in Calls : SubmitRaise(c)
    \/ TaskStart
    \/ AdjustIteration
    \/ Close
    \/ CloseResume
    \/ Shutdown
    \/ \E d \in {60} : TimePasses(d)

SpecLife == Init /\ [][NextLife]_vars

----------------------------------------------------------------------------
(* SpecClose: close() beside the adjustment task, under the scheduling of  *)
(* the event loop: a coroutine that can run does run, and time goes on     *)

\* d seconds pass as in TimePasses; past MaxElapsed since the last
\* submission the time since then is no longer counted
TimePassesOn(d) ==
    /\ last_partial_submit_time' =
          Max(last_partial_submit_time - d, now - MaxElapsed)
    /\ last_tick' = Max(last_tick - d, now - TickPeriod)
    /\ sleep_done' = (adjust_difficulty_task = "sleeping")
    /\ ret' = <<>>
    /\ log' = <<>>
    /\ UNCHANGED <<pool_client, pool_target, pool_difficulty, pool_minimum_difficulty,
                   pool_partial_target_time, total_plots, harvester_plots,
                   adjust_difficulty_task>>
    /\ UNCHANGED <<farmerVars, envVars, callVars, close_pc, startVars, postVars, rootVars>>

NextClose ==
    \/ TaskStart
    \/ AdjustIteration
    \/ Close
    \/ CloseResume
    \/ Shutdown
    \/ \E d \in TimeSteps : TimePassesOn(d)

SpecClose ==
    /\ Init
    /\ [][NextClose]_vars
    /\ WF_vars(TaskStart)
    /\ WF_vars(AdjustIteration)
    /\ WF_vars(CloseResume)
    /\ WF_vars(\E d \in TimeSteps : TimePassesOn(d))

----------------------------------------------------------------------------
(* SpecSubmit: the new_proof_of_space pipeline alone, pool_worker.py 184-281 *)

NextSubmit ==
    \/ \E c \in Calls, iters \in RequiredIters, key \in PoolKeys :
          NewProofOfSpace(c, iters, key)
    \/ \E c \in Calls, resp \in SignResponses : SignResponse(c, resp)
    \/ \E c \in Calls, r \in Responses : SubmitReturn(c, r)
    \/ \E c \in Calls : SubmitRaise(c)

SpecSubmit == Init /\ [][NextSubmit]_vars

----------------------------------------------------------------------------
(* SpecRace: two new_proof_of_space calls and the adjustment task side by  *)
(* side; the pool answers without an error code                            *)

NextRace ==
    \/ \E c \in Frames, iters \in RequiredIters :
          NewProofOfSpace(c, iters, "in_pool_sks_map")
    \/ \E c \in Frames, resp \in SignResponses : SignResponse(c, resp)
    \/ \E c \in Frames, r \in {x \in Responses : "error_code" \notin x.keys} :
          SubmitReturn(c, r)
    \/ \E c \in Frames : SubmitRaise(c)
    \/ TaskStart
    \/ AdjustIteration
    \/ \E d \in {60} : TimePasses(d)

SpecRace == Init /\ [][NextRace]_vars

----------------------------------------------------------------------------
(* SpecPost: post_partial, pool_api_client.py 21-36 *)

Urls == {"url1", "url2"}
HttpErrors == {404, 500}               \* statuses with res.ok false
AttemptDurations == {1, 9, 30}         \* partial_timeout allows an attempt 30 s

\* How one POST can end: "ok" (res.ok and a decoded body), "status" (res.ok
\* false), "ClientError" (an aiohttp.ClientError from the session, the
\* request or res.json()), "other" (any exception that is no ClientError)
AttemptOutcomes == {"ok", "status", "ClientError", "other"}

\* a variant of LoopContinues that still starts an attempt at the deadline
LoopContinues_AtDeadline == now <= ttl

\* line 24, while time.time() < ttl
LoopContinues == now < ttl

\* a variant of AfterAttempt that retries after a non-success status
AfterAttempt_RetriesStatus(outcome) ==
    IF outcome = "ok" THEN "returned"
    ELSE IF outcome \in {"ClientError", "status"} THEN "loop"
    ELSE "raised"

\* where an attempt's end leaves the call: line 29 returns, line 32 breaks
\* to the raise of line 36, line 33 catches and loops, anything else propagates
AfterAttempt(outcome) ==
    IF outcome = "ok" THEN "returned"
    ELSE IF outcome = "ClientError" THEN "loop"
    ELSE "raised"

\* lines 22-23
PostCall(u) ==
    /\ post_pc \in {"idle", "returned", "raised"}
    /\ url' = u
    /\ ttl' = now + PostBudget
    /\ last_error' = <<>>
    /\ attempts' = 0
    /\ post_result' = <<>>
    /\ post_started' = now
    /\ post_pc' = "loop"
    /\ UNCHANGED <<workerVars, taskVars, farmerVars, envVars, callVars, ret, log,
                   close_pc, startVars, rootVars>>

\* line 24 and, past the deadline, line 36
PostLoop ==
    /\ post_pc = "loop"
    /\ IF LoopContinues
       THEN /\ post_pc' = "attempt"
            /\ attempts' = attempts + 1
            /\ UNCHANGED post_result
       ELSE /\ post_pc' = "raised"
            /\ post_result' = IF last_error # <<>> THEN last_error
                              ELSE <<"ClientConnectionError", url, 0, 0>>
            /\ UNCHANGED attempts
    /\ UNCHANGED <<url, ttl, last_error, post_started>>
    /\ UNCHANGED <<workerVars, taskVars, farmerVars, envVars, callVars, ret, log,
                   close_pc, startVars, rootVars>>

\* lines 26-35: the POST issued by PostLoop ends after d seconds.  An error
\* is <<class, url, status, the attempt it came from>>.
PostAttemptEnds(d, outcome, status) ==
    /\ post_pc = "attempt"
    /\ ttl' = ttl - d
    /\ post_started' = post_started - d
    /\ post_pc' = AfterAttempt(outcome)
    /\ last_error' =
          IF outcome = "status" THEN <<"ClientConnectionError", url, status, attempts>>
          ELSE IF outcome = "ClientError" THEN <<"ClientError", url, 0, attempts>>
          ELSE last_error
    /\ post_result' =
          IF AfterAttempt(outcome) = "loop" THEN <<>>
          ELSE IF outcome = "ok" THEN <<"json">>
          ELSE IF outcome = "other" THEN <<"OtherError", url, 0, attempts>>
          ELSE last_error'
    /\ UNCHANGED <<url, attempts>>
    /\ UNCHANGED <<workerVars, taskVars, farmerVars, envVars, callVars, ret, log,
                   close_pc, startVars, rootVars>>

NextPost ==
    \/ \E u \in Urls : PostCall(u)
    \/ PostLoop
    \/ \E d \in AttemptDurations, outcome \in AttemptOutcomes, status \in HttpErrors :
          PostAttemptEnds(d, outcome, status)

SpecPost == Init /\ [][NextPost]_vars

----------------------------------------------------------------------------
(* SpecStart: __init__ and start(), pool_worker.py 27-68 and 148-153 *)

SectionKeys == {"enabled", "pool_url", "pool_payout_address"}
PoolUrls == {DEFAULT_POOL_URL, "https://pool.example", None}
PayoutStrings == {<<>>, <<"x">>, <<" ", "x", " ">>}

\* the og_pooling sections a config.yaml may hold
Sections ==
    {s \in [keys : SUBSET SectionKeys, enabled : BOOLEAN, pool_url : PoolUrls,
            pool_payout_address : PayoutStrings] :
        /\ "enabled" \notin s.keys => s.enabled = TRUE
        /\ "pool_url" \notin s.keys => s.pool_url = DEFAULT_POOL_URL
        /\ "pool_payout_address" \notin s.keys => s.pool_payout_address = <<>>}

\* dict.get(key, default), lines 52-54
Get(section, key, default) ==
    IF key \in section.keys THEN section[key] ELSE default

RECURSIVE StripLeft(_)
StripLeft(str) ==
    IF str # <<>> /\ Head(str) = " " THEN StripLeft(Tail(str)) ELSE str

RECURSIVE StripRight(_)
StripRight(str) ==
    IF str # <<>> /\ str[Len(str)] = " "
    THEN StripRight(SubSeq(str, 1, Len(str) - 1)) ELSE str

\* str.strip(), line 54
Strip(str) == StripRight(StripLeft(str))

LogUpgraded == <<"info", "config.yaml upgraded for legacy pooling">>
LogDisabled == <<"info", "Legacy pooling disabled">>

\* a variant of NeedsMigration that rewrites the section on every construction
NeedsMigration_Always(config) == TRUE

\* line 40, key not in self.config
NeedsMigration(config) == config = <<>>

\* lines 71-73
is_pooling_enabled == worker[1].pool_enabled /\ worker[1].pool_url # None

\* pool_api_client.py 42: __init__(self, base_url, log) takes two arguments
PoolApiClientInit(args) ==
    IF Len(args) = 2 THEN "client" ELSE "TypeError"

\* PoolWorker(root_path, farmer), lines 27-68
Construct ==
    /\ constructions < MaxConstructs
    /\ constructions' = constructions + 1
    /\ LET migrate == NeedsMigration(farmer_config)
           config == IF migrate THEN <<ConfigTemplate>> ELSE farmer_config
           og_config == config[1]
       IN  /\ farmer_config' = config
           /\ config_file' = IF migrate THEN <<ConfigTemplate>> ELSE config_file
           /\ save_count' = IF migrate THEN save_count + 1 ELSE save_count
           /\ log' = IF migrate THEN <<LogUpgraded>> ELSE <<>>
           /\ worker' = <<[pool_enabled |-> Get(og_config, "enabled", TRUE),
                           pool_url |-> Get(og_config, "pool_url", DEFAULT_POOL_URL),
                           pool_payout_address |->
                               Strip(Get(og_config, "pool_payout_address", <<>>))]>>
    /\ pool_target' = None
    /\ pool_difficulty' = 1
    /\ pool_minimum_difficulty' = 1
    /\ pool_partial_target_time' = DefaultTargetTime
    /\ last_partial_submit_time' = now
    /\ pool_client' = None
    /\ adjust_difficulty_task' = None
    /\ total_plots' = 0
    /\ harvester_plots' = EmptyMap
    /\ start_pc' = "idle"
    /\ ret' = <<>>
    /\ UNCHANGED <<shut_down, farmer_pool_target>>
    /\ UNCHANGED <<taskVars, callVars, close_pc, postVars, rootVars>>

\* start(), lines 148-153, up to the first await of _connect_to_pool: line 88
\* constructs the client from self.pool_url alone
Start ==
    /\ worker # <<>>
    /\ start_pc = "idle"
    /\ IF is_pooling_enabled
       THEN LET client == PoolApiClientInit(<<worker[1].pool_url>>)
            IN  /\ start_pc' = IF client = "TypeError" THEN "raised" ELSE "loop"
                /\ log' = <<>>
       ELSE /\ start_pc' = "returned"
            /\ log' = <<LogDisabled>>
    /\ ret' = <<>>
    /\ UNCHANGED worker
    /\ UNCHANGED <<workerVars, taskVars, farmerVars, envVars, callVars, close_pc,
                   postVars, rootVars>>

\* no worker yet; config.yaml holds a farmer section with or without og_pooling
InitStart ==
    /\ Quiet
    /\ worker = <<>>
    /\ start_pc = "idle"
    /\ farmer_config \in {<<>>} \cup {<<s>> : s \in Sections}
    /\ config_file = farmer_config
    /\ save_count = 0
    /\ constructions = 0
    /\ FreshFields
    /\ farmer_pool_target = "ph_farmer"

NextStart ==
    \/ Construct
    \/ Start
    \/ Shutdown

SpecStart == InitStart /\ [][NextStart]_vars

----------------------------------------------------------------------------
(* SpecTick: one tick of the adjustment task, pool_worker.py 127-146, from *)
(* every difficulty, minimum, target time and time since the last submit   *)

TickTargetTimes == {-1, 0, 1, 60, 300}

\* a connected worker whose task sleeps, a tick period after its last tick
InitTick ==
    /\ RootResolved
    /\ shut_down = FALSE
    /\ worker = <<[pool_enabled |-> TRUE, pool_url |-> DEFAULT_POOL_URL,
                   pool_payout_address |-> <<>>]>>
    /\ farmer_config = <<ConfigTemplate>>
    /\ config_file = <<ConfigTemplate>>
    /\ save_count = 0
    /\ constructions = 1
    /\ start_pc = "returned"
    /\ pool_client = "client"
    /\ pool_target = "ph_pool"
    /\ farmer_pool_target = "ph_pool"
    /\ pool_difficulty \in 0..MaxTickDifficulty
    /\ pool_minimum_difficulty \in 1..MaxMinDifficulty
    /\ pool_partial_target_time \in TickTargetTimes
    /\ last_partial_submit_time \in {now - e : e \in 0..MaxTickElapsed}
    /\ total_plots = 0
    /\ harvester_plots = EmptyMap
    /\ adjust_difficulty_task = "sleeping"
    /\ last_tick = now - TickPeriod
    /\ sleep_done = TRUE
    /\ NoCalls
    /\ NoPost
    /\ ret = <<>>
    /\ log = <<>>
    /\ close_pc = "idle"

NextTick == AdjustIteration

SpecTick == InitTick /\ [][NextTick]_vars

----------------------------------------------------------------------------
(* SpecRoot: the root path resolver at process startup *)

\* the process starts: an environment, and config_root.json absent or present
InitRoot ==
    /\ root_pc = "start"
    /\ environ \in Environs
    /\ override_file \in {<<>>} \cup {<<doc>> : doc \in OverrideDocuments}
    /\ root_path = <<>>
    /\ keys_root_path = <<>>
    /\ root_error = "none"
    /\ shut_down = FALSE
    /\ last_tick = 0
    /\ sleep_done = FALSE
    /\ NoCalls
    /\ NoPost
    /\ ret = <<>>
    /\ log = <<>>
    /\ close_pc = "idle"
    /\ worker = <<>>
    /\ start_pc = "idle"
    /\ farmer_config = <<ConfigTemplate>>
    /\ config_file = <<ConfigTemplate>>
    /\ save_count = 0
    /\ constructions = 0
    /\ FreshFields
    /\ farmer_pool_target = "ph_farmer"

NextRoot == ImportDefaultRoot

SpecRoot == InitRoot /\ [][NextRoot]_vars

----------------------------------------------------------------------------
(* SpecConnect: the loop of _connect_to_pool, pool_worker.py 90-121, from  *)
(* the state in which line 88 has produced a client.  Start never reaches  *)
(* that state: see PoolApiClientInit.                                      *)

\* lines 94-96: get_pool_info raised; the error is logged and sleep(5) runs
FetchFails ==
    /\ start_pc = "fetching"
    /\ start_pc' = "loop"
    /\ log' = <<<<"error", "Error retrieving pool info">>>>
    /\ ret' = <<>>
    /\ UNCHANGED worker
    /\ UNCHANGED <<workerVars, taskVars, farmerVars, envVars, callVars, close_pc,
                   postVars, rootVars>>

\* the loop test of line 90, on entry or when sleep(5) is over: either the
\* next fetch or lines 98-99 and line 151
ConnectLoopTest ==
    /\ start_pc = "loop"
    /\ IF shut_down
       THEN /\ start_pc' = "returned"
            /\ adjust_difficulty_task' = "created"
       ELSE /\ start_pc' = "fetching"
            /\ UNCHANGED adjust_difficulty_task
    /\ log' = <<>>
    /\ ret' = <<>>
    /\ UNCHANGED worker
    /\ UNCHANGED <<pool_client, pool_target, pool_difficulty, pool_minimum_difficulty,
                   pool_partial_target_time, last_partial_submit_time, total_plots,
                   harvester_plots>>
    /\ UNCHANGED <<taskVars, farmerVars, envVars, callVars, close_pc, postVars, rootVars>>

\* lines 92-93 and 98-121, then line 151: get_pool_info answered a
\* well-formed pool info
FetchSucceeds(info) ==
    /\ start_pc = "fetching"
    /\ start_pc' = "returned"
    /\ adjust_difficulty_task' = "created"
    /\ IF shut_down
       THEN /\ log' = <<>>
            /\ UNCHANGED <<pool_client, pool_target, pool_difficulty,
                           pool_minimum_difficulty, pool_partial_target_time,
                           farmer_pool_target>>
       ELSE /\ pool_minimum_difficulty' = info.minimum_difficulty
            /\ pool_difficulty' = info.minimum_difficulty
            /\ pool_partial_target_time' = info.partial_target_time
            /\ pool_target' = info.target_puzzle_hash
            /\ farmer_pool_target' = info.target_puzzle_hash
            /\ pool_client' = "client"
            /\ log' = <<<<"info", "Connected to pool">>, <<"info", "Pool info">>>>
    /\ ret' = <<>>
    /\ UNCHANGED <<last_partial_submit_time, total_plots, harvester_plots>>
    /\ UNCHANGED <<shut_down, farmer_config, worker>>
    /\ UNCHANGED <<taskVars, envVars, callVars, close_pc, postVars, rootVars>>

\* a fresh worker of the default configuration whose _connect_to_pool stands
\* at its loop
InitConnect ==
    /\ Quiet
    /\ worker = <<[pool_enabled |-> TRUE, pool_url |-> DEFAULT_POOL_URL,
                   pool_payout_address |-> <<>>]>>
    /\ farmer_config = <<ConfigTemplate>>
    /\ config_file = <<ConfigTemplate>>
    /\ save_count = 0
    /\ constructions = 1
    /\ start_pc = "loop"
    /\ FreshFields
    /\ farmer_pool_target = "ph_farmer"

NextConnect ==
    \/ FetchFails
    \/ ConnectLoopTest
    \/ \E info \in PoolInfos : FetchSucceeds(info)
    \/ Shutdown

SpecConnect == InitConnect /\ [][NextConnect]_vars

----------------------------------------------------------------------------
(* Properties *)

\* C1: new_signage_point returns (pool_difficulty, 37600000000) whenever the
\* worker is connected, whatever the signage point declares, and the signage
\* point's own (difficulty, sub_slot_iters) whenever it is not.
C1_SignagePointOverride ==
    [][\A sp \in SignagePoints :
          NewSignagePoint(sp) =>
             ret' = IF pool_client # None
                    THEN <<pool_difficulty, <<37, 600000000>>>>
                    ELSE <<sp.difficulty, sp.sub_slot_iters>>]_vars

\* a connected worker has answered a signage point with a difficulty and
\* sub-slot iterations that no signage point of the model declares together
C1_Witness ==
    /\ pool_client # None
    /\ pool_difficulty \notin {sp.difficulty : sp \in SignagePoints}
    /\ ret = <<pool_difficulty, <<37, 600000000>>>>

\* C2: whenever the adjustment loop writes pool_difficulty (it logs the
\* lowering), the value it wrote is at least pool_minimum_difficulty.
C2_AdjustmentFloor ==
    \A i \in 1..Len(log) :
        log[i][2] = "lowered_difficulty" =>
            /\ pool_difficulty = log[i][4]
            /\ pool_difficulty >= pool_minimum_difficulty

\* the loop has just lowered the difficulty to the minimum although twice
\* the missing partials would have taken it below
C2_Witness ==
    /\ log # <<>>
    /\ log[1][2] = "lowered_difficulty"
    /\ pool_difficulty = pool_minimum_difficulty
    /\ log[1][3] - 2 * ((now - last_partial_submit_time) \div pool_partial_target_time)
          < pool_minimum_difficulty

\* C3: while connected, a proof with required_iters >= iters_limit (equal
\* included) is rejected: the call returns with no signature request and no
\* submission, and the difficulty, the target time and the last submit time
\* stay as they were; a proof below the limit goes on to the signature request.
C3_EligibilityBoundary ==
    [][\A c \in Calls, iters \in RequiredIters, key \in PoolKeys :
          (NewProofOfSpace(c, iters, key) /\ is_pool_connected)
          => IF iters >= iters_limit
             THEN /\ pc'[c] = "returned"
                  /\ log' = <<LogNotGoodEnough>>
                  /\ UNCHANGED <<pool_difficulty, pool_partial_target_time,
                                 last_partial_submit_time>>
             ELSE pc'[c] = "await_sign"]_vars

\* a connected worker has rejected a proof whose required_iters is exactly
\* iters_limit
C3_Witness ==
    \E c \in Calls :
        /\ is_pool_connected
        /\ pc[c] = "returned"
        /\ required_iters[c] = iters_limit
        /\ log = <<LogNotGoodEnough>>

RECURSIVE C4_SumOver(_, _)
\* the sum, over the peers of S that m holds a report of, of that report
C4_SumOver(S, m) ==
    IF S = {} THEN 0
    ELSE LET p == CHOOSE q \in S : TRUE
         IN (IF p \in DOMAIN m THEN m[p] ELSE 0) + C4_SumOver(S \ {p}, m)

\* a report of a connected worker replaces the reporting peer's earlier one
\* and leaves every other peer's as it was
C4_ReportsKept ==
    \A peer \in Peers, n \in PlotCounts :
        (FarmingInfo(peer, n) /\ is_pool_connected) =>
            /\ DOMAIN harvester_plots' = DOMAIN harvester_plots \cup {peer}
            /\ harvester_plots'[peer] = n
            /\ \A q \in DOMAIN harvester_plots \ {peer} :
                  harvester_plots'[q] = harvester_plots[q]

\* a signage point of a connected worker sets total_plots to the sum of the
\* peers' latest reports and empties the map; nothing else writes total_plots
C4_Snapshot ==
    /\ \A sp \in SignagePoints :
          (NewSignagePoint(sp) /\ is_pool_connected) =>
              /\ total_plots' = C4_SumOver(Peers, harvester_plots)
              /\ harvester_plots' = EmptyMap
    /\ total_plots' # total_plots =>
          \E sp \in SignagePoints : NewSignagePoint(sp) /\ is_pool_connected

\* C4 as stated: total_plots is the sum of the latest reports per peer since
\* the previous signage point, the map is empty afterwards, and the partial
\* submitted next carries that total_plots.
C4_NextSubmittedCarriesTotal ==
    [][/\ C4_ReportsKept
       /\ C4_Snapshot
       /\ \A c \in Calls :
             (pc[c] = "await_sign" /\ pc'[c] = "await_submit") =>
                 payload[c].total_plots = total_plots]_vars

\* C4 as amended: ... and the payload built by the next new_proof_of_space
\* call carries that total_plots; a partial whose payload was built before
\* the signage point is submitted with the total_plots of its own call.
C4_NextPayloadCarriesTotal ==
    [][/\ C4_ReportsKept
       /\ C4_Snapshot
       /\ \A c \in Calls, iters \in RequiredIters, key \in PoolKeys :
             (NewProofOfSpace(c, iters, key) /\ pc'[c] = "await_sign") =>
                 payload'[c].total_plots = total_plots
       /\ \A c \in Calls :
             pc[c] \in {"await_sign", "await_submit"} => payload'[c] = payload[c]]_vars

\* reports of 100 and 150 plots were summed by a signage point, the map is
\* empty and a call made since has built its payload with 250
C4_Witness ==
    /\ is_pool_connected
    /\ total_plots = 250
    /\ harvester_plots = EmptyMap
    /\ \E c \in Calls : pc[c] = "await_sign" /\ payload[c].total_plots = 250

\* C7: a response with error_code 5 leaves pool_difficulty as it was; a
\* response with another error code is logged as an error, raises nothing
\* and leaves the worker's fields as they were.
C7_ErrorCodeHandling ==
    [][\A c \in Calls, r \in Responses :
          (SubmitReturn(c, r) /\ "error_code" \in r.keys) =>
              IF r.error_code = 5
              THEN pool_difficulty' = pool_difficulty
              ELSE /\ pc'[c] = "returned"
                   /\ \E i \in 1..Len(log') : log'[i] = LogPoolingError
                   /\ UNCHANGED workerVars]_vars

\* C8: no new_proof_of_space call ends by raising, whatever the harvester
\* and the pool answer.
C8_NothingPropagates ==
    \A c \in Calls : pc[c] # "raised"

\* C5: when every POST attempt fails with a transport-level error,
\* post_partial starts no attempt once 23 seconds have passed since the call
\* began, records each failed attempt's error as the last error, and at the
\* deadline raises the error of the last attempt made instead of returning.
C5_RetryDeadline ==
    [][/\ (post_pc = "loop" /\ post_pc' = "attempt") =>
             now - post_started < 23
       /\ (post_pc = "attempt" /\ post_pc' = "loop") =>
             last_error' = <<"ClientError", url, 0, attempts>>
       /\ (post_pc = "loop" /\ now - post_started >= 23) =>
             /\ post_pc' = "raised"
             /\ post_result' = <<"ClientError", url, 0, attempts>>
       /\ (post_pc = "attempt" /\ post_pc' = "raised"
             /\ post_result'[1] = "OtherError") =>
             post_result'[4] = attempts
       /\ (post_pc = "attempt" /\ post_pc' = "returned") =>
             post_result' = <<"json">>]_vars

\* a call of which two or more attempts failed with a ClientError has run
\* past its deadline and raised the error of its last attempt
C5_Witness ==
    /\ post_pc = "raised"
    /\ attempts >= 2
    /\ now - post_started >= 23
    /\ post_result = <<"ClientError", url, 0, attempts>>

\* C6: a response with a non-success status ends the call on whichever
\* attempt it occurs: the call raises a ClientConnectionError carrying the
\* url and that status, and no further POST is issued by that call, whatever
\* failed before and however much time remains.
C6_StatusIsTerminal ==
    [][/\ \A d \in AttemptDurations, status \in HttpErrors :
             PostAttemptEnds(d, "status", status) =>
                /\ post_pc' = "raised"
                /\ post_result' = <<"ClientConnectionError", url, status, attempts>>
       /\ (post_pc = "raised" /\ post_pc' # "raised") =>
             (post_pc' = "loop" /\ attempts' = 0)]_vars

\* a call has raised the status 500 of its third attempt, after two
\* transport errors and with time left before the deadline
C6_Witness ==
    /\ post_pc = "raised"
    /\ post_result = <<"ClientConnectionError", url, 500, 3>>
    /\ attempts = 3
    /\ now < ttl

\* C9: start() of a worker with pooling enabled does not fail, and when it
\* has returned the worker is connected with pool_difficulty equal to the
\* pool minimum, the pool target installed and the adjustment task launched;
\* with pooling disabled it never connects and launches no task.
C9_StartConnects ==
    (worker # <<>> /\ start_pc # "idle" /\ ~shut_down) =>
        IF worker[1].pool_enabled /\ worker[1].pool_url # None
        THEN /\ start_pc # "raised"
             /\ start_pc = "returned" =>
                   /\ pool_client # None
                   /\ pool_difficulty = pool_minimum_difficulty
                   /\ pool_target = farmer_pool_target
                   /\ adjust_difficulty_task # None
        ELSE /\ pool_client = None
             /\ adjust_difficulty_task = None

\* C10 as stated: constructing against a configuration without og_pooling
\* injects and persists a section of exactly three keys, enabled,
\* pool_url and an empty pool_payout_address; constructing against a
\* configuration that has the section writes nothing.
C10_InjectsThreeKeys ==
    [][constructions' = constructions + 1 =>
         IF farmer_config = <<>>
         THEN /\ farmer_config' =
                    <<[keys |-> {"enabled", "pool_url", "pool_payout_address"},
                       enabled |-> TRUE,
                       pool_url |-> "https://pool.sweetchia.com",
                       pool_payout_address |-> <<>>]>>
              /\ config_file' = farmer_config'
              /\ save_count' = save_count + 1
         ELSE UNCHANGED <<farmer_config, config_file, save_count>>]_vars

\* C10: constructing against a configuration without og_pooling injects and
\* persists a section of exactly two keys, enabled = true and the default
\* pool_url, and the worker reads the absent pool_payout_address as the
\* empty string; constructing against a configuration that has the section
\* writes nothing and changes nothing.
C10_InjectsTwoKeys ==
    [][constructions' = constructions + 1 =>
         IF farmer_config = <<>>
         THEN /\ farmer_config'[1].keys = {"enabled", "pool_url"}
              /\ farmer_config'[1].enabled = TRUE
              /\ farmer_config'[1].pool_url = "https://pool.sweetchia.com"
              /\ config_file' = farmer_config'
              /\ save_count' = save_count + 1
              /\ worker'[1].pool_payout_address = <<>>
         ELSE UNCHANGED <<farmer_config, config_file, save_count>>]_vars

\* a second worker has been constructed against the configuration the first
\* construction migrated, and the file was saved once
C10_Witness ==
    /\ constructions = 2
    /\ save_count = 1
    /\ config_file # <<>>
    /\ config_file[1].keys = {"enabled", "pool_url"}
    /\ worker # <<>>

\* C11: a tick leaves pool_difficulty unchanged when elapsed, the time since
\* last_partial_submit_time, is below pool_partial_target_time or the target
\* time is below 1; otherwise the new difficulty is the larger of
\* pool_minimum_difficulty and pool_difficulty - 2k, where k is the whole
\* number of target times in elapsed; difficulty 10, minimum 1, target time
\* 60 and elapsed 185 give 4.
C11_TickArithmetic ==
    [][(adjust_difficulty_task = "sleeping" /\ sleep_done
            /\ now - last_tick >= 60 /\ sleep_done' = FALSE) =>
         LET elapsed == now - last_partial_submit_time
             target == pool_partial_target_time
         IN  /\ (elapsed < target \/ target < 1) => pool_difficulty' = pool_difficulty
             /\ (elapsed >= target /\ target >= 1) =>
                   \E k \in 0..elapsed :
                      /\ k * target <= elapsed
                      /\ elapsed < (k + 1) * target
                      /\ pool_difficulty' >= pool_minimum_difficulty
                      /\ pool_difficulty' >= pool_difficulty - 2 * k
                      /\ pool_difficulty' \in {pool_minimum_difficulty,
                                              pool_difficulty - 2 * k}
             /\ (pool_difficulty = 10 /\ pool_minimum_difficulty = 1
                   /\ target = 60 /\ elapsed = 185) => pool_difficulty' = 4]_vars

\* the tick of the example has run: 185 seconds after the last submission,
\* target time 60, minimum 1, the difficulty went from 10 to 4
C11_Witness ==
    /\ log = <<LogLowered(10, 4)>>
    /\ last_partial_submit_time = now - 185
    /\ pool_partial_target_time = 60
    /\ pool_minimum_difficulty = 1
    /\ pool_difficulty = 4

\* C12: with config_root.json present the resolver completes without error,
\* and for each of the two keys on its own the resolved path is the key's
\* value, home-expanded and resolved, when the key is present with a value
\* longer than one character, and the environment or fallback default when
\* the key is absent or its value is empty or a single character.
C12_RootOverride ==
    (root_pc # "start" /\ override_file # <<>>) =>
        LET doc == override_file[1]
        IN  /\ root_pc = "done"
            /\ root_path =
                  IF "DEFAULT_ROOT_PATH" \in doc.keys /\ Len(doc.DEFAULT_ROOT_PATH) > 1
                  THEN Resolve(ExpandUser(doc.DEFAULT_ROOT_PATH))
                  ELSE DefaultRoot(environ)
            /\ keys_root_path =
                  IF "DEFAULT_KEYS_ROOT_PATH" \in doc.keys
                        /\ Len(doc.DEFAULT_KEYS_ROOT_PATH) > 1
                  THEN Resolve(ExpandUser(doc.DEFAULT_KEYS_ROOT_PATH))
                  ELSE DefaultKeysRoot(environ)

C14_StaysConnected ==
    [][(is_pool_connected /\ close_pc' = close_pc) => pool_client' = pool_client]_vars

\* a submission of a connected worker has failed with a transport error and
\* the worker, which was never closed, is still connected
C14_Witness ==
    /\ is_pool_connected
    /\ close_pc = "idle"
    /\ \E c \in Calls : pc[c] = "returned"
    /\ log = <<LogSubmitFailed>>

\* C15: close() has returned only when the adjustment task, if there is one,
\* has finished, and then pool_client is cleared; it has returned from
\* waiting for a task only if the shutdown flag was set; and a close() that
\* waits while the flag is set eventually returns.
C15_CloseAwaitsTask ==
    /\ [](close_pc = "returned" =>
             /\ adjust_difficulty_task \in {None, "done"}
             /\ pool_client = None
             /\ adjust_difficulty_task = "done" => shut_down)
    /\ [](close_pc = "await_task" /\ ~shut_down => adjust_difficulty_task # "done")
    /\ ((close_pc = "await_task" /\ shut_down) ~> close_pc = "returned")

\* close() waited for the task of a connected worker, the flag was set, the
\* task finished and close() returned, leaving the worker disconnected
C15_Witness ==
    /\ close_pc = "returned"
    /\ adjust_difficulty_task = "done"
    /\ shut_down
    /\ pool_client = None
    /\ pool_target # None

\* C16: a call that reaches the submit sets last_partial_submit_time to the
\* current time as it issues the submit, whatever becomes of the submit; no
\* other step of new_proof_of_space (not connected, ineligible proof,
\* invalid harvester answer, the pool's answer or the transport error) and
\* no step of the adjustment task changes it.
C16_SubmitTimeSetAtIssue ==
    [][/\ \A c \in Calls :
             (pc[c] = "await_sign" /\ pc'[c] # pc[c]) =>
                 IF pc'[c] = "await_submit" \/ log' = <<LogSubmitFailed>>
                 THEN last_partial_submit_time' = now
                 ELSE last_partial_submit_time' = last_partial_submit_time
       /\ (\E c \in Calls : pc'[c] # pc[c] /\ pc[c] # "await_sign") =>
             last_partial_submit_time' = last_partial_submit_time
       /\ (adjust_difficulty_task' # adjust_difficulty_task
              \/ (sleep_done /\ ~sleep_done')) =>
             last_partial_submit_time' = last_partial_submit_time]_vars

\* time has gone by since the task started, and a call has just issued its
\* submit: last_partial_submit_time is the current time again
C16_Witness ==
    /\ adjust_difficulty_task = "sleeping"
    /\ last_tick < now
    /\ last_partial_submit_time = now
    /\ \E c \in Calls : pc[c] = "await_submit"

\* C17: the pool's answer to a submission changes pool_difficulty exactly
\* when it holds a new_difficulty other than the current one, and then to
\* that value; it changes pool_partial_target_time exactly when it holds a
\* partial_target_time that is not negative and is other than the current
\* one, and then to that value; a submission that failed changes neither.
C17_ResponseAdoption ==
    [][/\ \A c \in Calls, r \in Responses :
             SubmitReturn(c, r) =>
                /\ (pool_difficulty' # pool_difficulty) <=>
                      ("new_difficulty" \in r.keys /\ r.new_difficulty # pool_difficulty)
                /\ (pool_difficulty' # pool_difficulty) =>
                      pool_difficulty' = r.new_difficulty
                /\ (pool_partial_target_time' # pool_partial_target_time) <=>
                      /\ "partial_target_time" \in r.keys
                      /\ r.partial_target_time >= 0
                      /\ r.partial_target_time # pool_partial_target_time
                /\ (pool_partial_target_time' # pool_partial_target_time) =>
                      pool_partial_target_time' = r.partial_target_time
       /\ \A c \in Calls :
             SubmitRaise(c) =>
                /\ pool_difficulty' = pool_difficulty
                /\ pool_partial_target_time' = pool_partial_target_time]_vars

\* an answer has just changed both the difficulty, to 3, and the target
\* time, to 0
C17_Witness ==
    /\ \E c \in Calls : pc[c] = "returned"
    /\ log = <<LogDifficulty, LogTargetTime>>
    /\ pool_difficulty = 3
    /\ pool_partial_target_time = 0

\* C18 as stated: in every state of a connected worker pool_difficulty is at
\* least pool_minimum_difficulty.
C18_DifficultyAtLeastMinimum ==
    is_pool_connected => pool_difficulty >= pool_minimum_difficulty

\* C18: a connected worker starts with pool_difficulty at least
\* pool_minimum_difficulty, and the only step that takes pool_difficulty
\* below the minimum, or changes it while below, is the adoption of a
\* response's new_difficulty; an adjustment tick never does.
C18_OnlyPoolGoesBelowMinimum ==
    /\ (is_pool_connected => pool_difficulty >= pool_minimum_difficulty)
    /\ [][(pool_difficulty' < pool_minimum_difficulty') =>
             \/ /\ pool_difficulty' = pool_difficulty
                /\ pool_minimum_difficulty' = pool_minimum_difficulty
             \/ /\ \E c \in Calls : pc[c] = "await_submit" /\ pc'[c] # pc[c]
                /\ log' # <<>>
                /\ log'[1] = LogDifficulty]_vars

\* a response raised the difficulty of a connected worker to 3 and a tick
\* then lowered it to the minimum 1
C18_Witness ==
    /\ is_pool_connected
    /\ log = <<LogLowered(3, 1)>>
    /\ pool_minimum_difficulty = 1
    /\ pool_difficulty = 1

\* C19 as stated: the value of pool_difficulty after an adjustment tick is
\* at most its value before the tick.
C19_TickNeverIncreases ==
    [][(adjust_difficulty_task = "sleeping" /\ sleep_done /\ ~sleep_done') =>
          pool_difficulty' <= pool_difficulty]_vars

\* a response had set the difficulty to 0, below the minimum 1, and a tick
\* has raised it to 1
C19_Witness ==
    /\ is_pool_connected
    /\ log = <<LogLowered(0, 1)>>
    /\ pool_minimum_difficulty = 1
    /\ pool_difficulty = 1

\* C20: from the moment a call has built its payload until its submit is
\* answered, the difficulty in the payload that is signed and submitted is
\* the pool_difficulty the call's eligibility check was computed with,
\* whatever the adjustment task and the other call do to pool_difficulty in
\* between.
C20_PayloadDifficultyIsCheckedDifficulty ==
    \A c \in Frames :
        pc[c] \in {"await_sign", "await_submit"} =>
            payload[c].difficulty = iters_difficulty[c]

\* a call waits for the pool's answer to a payload of difficulty 3 while
\* pool_difficulty, changed during its signature wait, is another value
C20_Witness ==
    /\ pc["call1"] = "await_submit"
    /\ payload["call1"].difficulty = 3
    /\ iters_difficulty["call1"] = 3
    /\ pool_difficulty # 3

====
